---- MODULE Spec2Model ----
(***************************************************************************)
(* Model of pr_qr_pdf.py: main() derives the codes P<i:04d> of an integer  *)
(* range, writes one SVG and one PNG per code, tiles the PNGs on A4 pages  *)
(* in a COLS x ROWS grid and saves the pages as one PDF.                   *)
(*                                                                         *)
(* A code is modelled as the sequence of its characters, an image by the   *)
(* code it shows, a page by the sequence of its paste operations.          *)
(***************************************************************************)
EXTENDS Integers, Sequences, FiniteSets

VARIABLES
    argv,          \* the command line (the run's input)
    conf,          \* the layout constants of the run (locals of main)
    pc,            \* position in main
    dirs,          \* directories created
    start, end,    \* the parsed range
    codes,         \* list of code strings
    k,             \* 1-based index of the code the for loop is at
    svgs, pngs,    \* per-code files on disk, keyed by code
    png_paths,     \* paths appended so far
    images,        \* images loaded from png_paths
    A4_WIDTH_PX, A4_HEIGHT_PX, h_space, v_space,
    pages,         \* finished pages
    page,          \* the page being filled: its pastes, in paste order
    i,             \* offset of the current batch in images
    pdf, pdf_written,   \* the saved document
    out,           \* what the run printed
    status,        \* exit status, -1 while running
    failed         \* index of the code whose processing raised, 0 if none

vars == <<argv, conf, pc, dirs, start, end, codes, k, svgs, pngs, png_paths,
          images, A4_WIDTH_PX, A4_HEIGHT_PX, h_space, v_space, pages, page, i,
          pdf, pdf_written, out, status, failed>>

-----------------------------------------------------------------------------
(* Program constants *)

SIZE == 400
DEFAULT_START == 301
DEFAULT_END == 480
DPI == 300
A4_WIDTH_MM == 210
A4_HEIGHT_MM == 297
COLS == 5
ROWS == 6
\* MM_TO_INCH = 1 / 25.4, kept as the exact ratio MM_TO_INCH_NUM / MM_TO_INCH_DEN
MM_TO_INCH_NUM == 10
MM_TO_INCH_DEN == 254
CODE_WIDTH == 4

SVG_DIR == "qr_svgs"
PNG_DIR == "qr_pngs"

ProgramConf ==
    [COLS |-> COLS, ROWS |-> ROWS, img_w |-> SIZE, img_h |-> SIZE,
     A4_WIDTH_MM |-> A4_WIDTH_MM, A4_HEIGHT_MM |-> A4_HEIGHT_MM, DPI |-> DPI]

-----------------------------------------------------------------------------
(* Bounds of the model *)

MaxLen == 61        \* longest explicit range on the command line
MaxCols == 2
MaxRows == 2
MaxImg == 2
MaxMM == 7
MaxCfgLen == 5      \* longest range tried with a non-program configuration
CfgDPI == 25

StartSamples == {-2, 301, 9995}

Argv ==
    {[kind |-> "none", a |-> 0, b |-> 0],
     [kind |-> "bad_count", a |-> 0, b |-> 0],
     [kind |-> "non_int", a |-> 0, b |-> 0]}
    \cup {[kind |-> "two", a |-> s, b |-> s + d] :
             s \in StartSamples, d \in (-2)..(MaxLen - 1)}

CfgArgv ==
    {[kind |-> "two", a |-> 1, b |-> e] : e \in 0..MaxCfgLen}

CfgConf ==
    [COLS : 1..MaxCols, ROWS : 1..MaxRows, img_w : 1..MaxImg, img_h : 1..MaxImg,
     A4_WIDTH_MM : 2..MaxMM, A4_HEIGHT_MM : 2..MaxMM, DPI : {CfgDPI}]

-----------------------------------------------------------------------------
(* Pure functions *)

Min(a, b) == IF a < b THEN a ELSE b

DigitChars == <<"0", "1", "2", "3", "4", "5", "6", "7", "8", "9">>

RECURSIVE Digits(_)
\* decimal digits of n >= 0, most significant first
Digits(n) ==
    IF n < 10 THEN <<DigitChars[n + 1]>>
    ELSE Append(Digits(n \div 10), DigitChars[(n % 10) + 1])

RECURSIVE ZeroPad(_, _)
\* left-pad with "0" up to a minimum width; longer inputs are left alone
ZeroPad(s, w) == IF Len(s) >= w THEN s ELSE ZeroPad(<<"0">> \o s, w)

\* a width one short of the requested one
FormatD_short(n, w) ==
    IF n < 0 THEN <<"-">> \o ZeroPad(Digits(-n), w - 2)
    ELSE ZeroPad(Digits(n), w - 1)

\* format(i, "04d"): minimum width 4, zero fill after the sign
FormatD(n, w) ==
    IF n < 0 THEN <<"-">> \o ZeroPad(Digits(-n), w - 1)
    ELSE ZeroPad(Digits(n), w)

\* f"P{i:04d}"
CodeOf(n) == <<"P">> \o FormatD(n, CODE_WIDTH)

\* a reversed range read as the range between its two ends
CodeList_swapped(s, e) ==
    LET lo == Min(s, e)
        hi == IF s < e THEN e ELSE s
    IN  [n \in 1..(hi - lo + 1) |-> CodeOf(lo + n - 1)]

\* [f"P{i:04d}" for i in range(start, end + 1)]
CodeList(s, e) ==
    IF e < s THEN <<>> ELSE [n \in 1..(e - s + 1) |-> CodeOf(s + n - 1)]

\* int(mm * MM_TO_INCH * dpi): truncation of a positive value.  The float
\* product differs from the exact ratio by far less than its distance to an
\* integer for every (mm, dpi) used here, so the exact floor is what int() gives.
PagePx(mm, dpi) == (mm * dpi * MM_TO_INCH_NUM) \div MM_TO_INCH_DEN

\* the operands of the subtraction exchanged
Spacing_negated(page_px, n, img) == ((n * img) - page_px) \div (n + 1)

\* the free space divided among the n gaps, the two margins forgotten
Spacing_gaps(page_px, n, img) == (page_px - (n * img)) \div n

\* (page_px - n * img) // (n + 1), Python floor division (\div floors too)
Spacing(page_px, n, img) == (page_px - (n * img)) \div (n + 1)

\* the row changes one image late
RowOf_late(j, cols) == j \div (cols + 1)

RowOf(j, cols) == j \div cols
ColOf(j, cols) == j % cols
\* cells counted from 1
Offset_onebased(cell, img, space) == space + (cell + 1) * (img + space)

\* x = h_space + col * (img_w + h_space); the same shape gives y
Offset(cell, img, space) == space + cell * (img + space)

\* a square grid assumed
ImagesPerPage_square(c) == c.COLS * c.COLS

ImagesPerPage(c) == c.COLS * c.ROWS

\* images[i:i+IMAGES_PER_PAGE]
Batch(imgs, off, n) ==
    IF off >= Len(imgs) THEN <<>> ELSE SubSeq(imgs, off + 1, Min(off + n, Len(imgs)))

-----------------------------------------------------------------------------
(* State machine *)

Blank ==
    /\ pc = "makedirs"
    /\ dirs = {}
    /\ start = 0 /\ end = 0
    /\ codes = <<>> /\ k = 0
    /\ svgs = {} /\ pngs = {}
    /\ png_paths = <<>> /\ images = <<>>
    /\ A4_WIDTH_PX = 0 /\ A4_HEIGHT_PX = 0 /\ h_space = 0 /\ v_space = 0
    /\ pages = <<>> /\ page = <<>> /\ i = 0
    /\ pdf = <<>> /\ pdf_written = FALSE
    /\ out = "" /\ status = -1 /\ failed = 0

Init ==
    /\ argv \in Argv
    /\ conf = ProgramConf
    /\ Blank

CfgInit ==
    /\ \/ argv \in Argv /\ conf = ProgramConf
       \/ argv \in CfgArgv /\ conf \in CfgConf
    /\ Blank

MakeDirs ==
    /\ pc = "makedirs"
    /\ dirs' = dirs \cup {SVG_DIR, PNG_DIR}
    /\ pc' = "args"
    /\ UNCHANGED <<argv, conf, start, end, codes, k, svgs, pngs, png_paths,
                   images, A4_WIDTH_PX, A4_HEIGHT_PX, h_space, v_space, pages,
                   page, i, pdf, pdf_written, out, status, failed>>

ParseArgs ==
    /\ pc = "args"
    /\ CASE argv.kind = "none" ->
              /\ start' = DEFAULT_START /\ end' = DEFAULT_END
              /\ pc' = "gen" /\ UNCHANGED <<out, status>>
         [] argv.kind = "two" ->
              /\ start' = argv.a /\ end' = argv.b
              /\ pc' = "gen" /\ UNCHANGED <<out, status>>
         [] argv.kind = "non_int" ->      \* int() raises ValueError
              /\ pc' = "exit" /\ out' = "traceback" /\ status' = 1
              /\ UNCHANGED <<start, end>>
         [] OTHER ->                      \* wrong argument count
              /\ pc' = "exit" /\ out' = "usage" /\ status' = 1
              /\ UNCHANGED <<start, end>>
    /\ UNCHANGED <<argv, conf, dirs, codes, k, svgs, pngs, png_paths, images,
                   A4_WIDTH_PX, A4_HEIGHT_PX, h_space, v_space, pages, page, i,
                   pdf, pdf_written, failed>>

GenCodes ==
    /\ pc = "gen"
    /\ codes' = CodeList(start, end)
    /\ png_paths' = <<>>
    /\ k' = 1
    /\ pc' = "loop"
    /\ UNCHANGED <<argv, conf, dirs, start, end, svgs, pngs, images,
                   A4_WIDTH_PX, A4_HEIGHT_PX, h_space, v_space, pages, page, i,
                   pdf, pdf_written, out, status, failed>>

\* generate_qr_svg returns and the SVG file is written
GenerateSvg ==
    /\ pc = "loop" /\ k <= Len(codes)
    /\ svgs' = svgs \cup {codes[k]}
    /\ pc' = "raster"
    /\ UNCHANGED <<argv, conf, dirs, start, end, codes, k, pngs, png_paths,
                   images, A4_WIDTH_PX, A4_HEIGHT_PX, h_space, v_space, pages,
                   page, i, pdf, pdf_written, out, status, failed>>

\* the failing code is skipped and the loop goes on
GenerateFail_skip ==
    /\ pc = "loop" /\ k <= Len(codes)
    /\ failed' = k
    /\ k' = k + 1
    /\ UNCHANGED <<argv, conf, pc, dirs, start, end, codes, svgs, pngs,
                   png_paths, images, A4_WIDTH_PX, A4_HEIGHT_PX, h_space,
                   v_space, pages, page, i, pdf, pdf_written, out, status>>

\* generate_qr_svg (segno) raises: the exception leaves main
GenerateFail ==
    /\ pc = "loop" /\ k <= Len(codes)
    /\ failed' = k
    /\ pc' = "exit" /\ out' = "traceback" /\ status' = 1
    /\ UNCHANGED <<argv, conf, dirs, start, end, codes, k, svgs, pngs,
                   png_paths, images, A4_WIDTH_PX, A4_HEIGHT_PX, h_space,
                   v_space, pages, page, i, pdf, pdf_written>>

\* svg2png writes the PNG and the path is appended
Svg2Png ==
    /\ pc = "raster"
    /\ pngs' = pngs \cup {codes[k]}
    /\ png_paths' = Append(png_paths, codes[k])
    /\ k' = k + 1
    /\ pc' = "loop"
    /\ UNCHANGED <<argv, conf, dirs, start, end, codes, svgs, images,
                   A4_WIDTH_PX, A4_HEIGHT_PX, h_space, v_space, pages, page, i,
                   pdf, pdf_written, out, status, failed>>

\* svg2png raises: the exception leaves main, the SVG of this code is on disk
Svg2PngFail ==
    /\ pc = "raster"
    /\ failed' = k
    /\ pc' = "exit" /\ out' = "traceback" /\ status' = 1
    /\ UNCHANGED <<argv, conf, dirs, start, end, codes, k, svgs, pngs,
                   png_paths, images, A4_WIDTH_PX, A4_HEIGHT_PX, h_space,
                   v_space, pages, page, i, pdf, pdf_written>>

LoadImages ==
    /\ pc = "loop" /\ k > Len(codes)
    /\ images' = png_paths
    /\ pc' = IF png_paths # <<>> THEN "layout" ELSE "nopng"
    /\ UNCHANGED <<argv, conf, dirs, start, end, codes, k, svgs, pngs,
                   png_paths, A4_WIDTH_PX, A4_HEIGHT_PX, h_space, v_space,
                   pages, page, i, pdf, pdf_written, out, status, failed>>

\* else: print("No PNGs generated!"); main returns, exit status 0
NoPngs ==
    /\ pc = "nopng"
    /\ out' = "no_pngs" /\ status' = 0 /\ pc' = "exit"
    /\ UNCHANGED <<argv, conf, dirs, start, end, codes, k, svgs, pngs,
                   png_paths, images, A4_WIDTH_PX, A4_HEIGHT_PX, h_space,
                   v_space, pages, page, i, pdf, pdf_written, failed>>

Layout ==
    /\ pc = "layout"
    /\ A4_WIDTH_PX' = PagePx(conf.A4_WIDTH_MM, conf.DPI)
    /\ A4_HEIGHT_PX' = PagePx(conf.A4_HEIGHT_MM, conf.DPI)
    /\ h_space' = Spacing(A4_WIDTH_PX', conf.COLS, conf.img_w)
    /\ v_space' = Spacing(A4_HEIGHT_PX', conf.ROWS, conf.img_h)
    /\ pages' = <<>>
    /\ i' = 0
    /\ pc' = "pages"
    /\ UNCHANGED <<argv, conf, dirs, start, end, codes, k, svgs, pngs,
                   png_paths, images, page, pdf, pdf_written, out, status,
                   failed>>

\* page = Image.new('RGB', (A4_WIDTH_PX, A4_HEIGHT_PX), 'white')
NewPage ==
    /\ pc = "pages" /\ i < Len(images)
    /\ page' = <<>>
    /\ pc' = "paste"
    /\ UNCHANGED <<argv, conf, dirs, start, end, codes, k, svgs, pngs,
                   png_paths, images, A4_WIDTH_PX, A4_HEIGHT_PX, h_space,
                   v_space, pages, i, pdf, pdf_written, out, status, failed>>

\* one iteration of the inner loop; j is the number of pastes so far
Paste ==
    /\ pc = "paste"
    /\ LET batch == Batch(images, i, ImagesPerPage(conf))
           j == Len(page)
           row == RowOf(j, conf.COLS)
           col == ColOf(j, conf.COLS)
       IN  /\ j < Len(batch)
           /\ page' = Append(page,
                  [img |-> batch[j + 1], row |-> row, col |-> col,
                   x |-> Offset(col, conf.img_w, h_space),
                   y |-> Offset(row, conf.img_h, v_space)])
    /\ UNCHANGED <<argv, conf, pc, dirs, start, end, codes, k, svgs, pngs,
                   png_paths, images, A4_WIDTH_PX, A4_HEIGHT_PX, h_space,
                   v_space, pages, i, pdf, pdf_written, out, status, failed>>

AppendPage ==
    /\ pc = "paste"
    /\ Len(page) = Len(Batch(images, i, ImagesPerPage(conf)))
    /\ pages' = Append(pages, page)
    /\ i' = i + ImagesPerPage(conf)
    /\ pc' = "pages"
    /\ UNCHANGED <<argv, conf, dirs, start, end, codes, k, svgs, pngs,
                   png_paths, images, A4_WIDTH_PX, A4_HEIGHT_PX, h_space,
                   v_space, page, pdf, pdf_written, out, status, failed>>

\* pages[0].save(PDF_FILE, save_all=True, append_images=pages[1:], ...)
SavePdf ==
    /\ pc = "pages" /\ i >= Len(images)
    /\ pdf' = pages
    /\ pdf_written' = TRUE
    /\ out' = "created" /\ status' = 0 /\ pc' = "exit"
    /\ UNCHANGED <<argv, conf, dirs, start, end, codes, k, svgs, pngs,
                   png_paths, images, A4_WIDTH_PX, A4_HEIGHT_PX, h_space,
                   v_space, pages, page, i, failed>>

Next ==
    \/ MakeDirs
    \/ ParseArgs
    \/ GenCodes
    \/ GenerateSvg
    \/ GenerateFail
    \/ Svg2Png
    \/ Svg2PngFail
    \/ LoadImages
    \/ NoPngs
    \/ Layout
    \/ NewPage
    \/ Paste
    \/ AppendPage
    \/ SavePdf

Spec == Init /\ [][Next]_vars

\* the same program run with other layout constants
CfgSpec == CfgInit /\ [][Next]_vars

-----------------------------------------------------------------------------
(* Vocabulary of the properties *)

\* the layout has been computed (main is past line 109)
LaidOut == pc \in {"pages", "paste"} \/ pdf_written

\* the code list has been built (main is past line 73)
Generated == k >= 1

\* every page composed so far, the one being filled included
AllPages == IF pc = "paste" THEN Append(pages, page) ELSE pages

PerPage == conf.COLS * conf.ROWS

FitInvariant ==
    /\ conf.COLS * conf.img_w <= A4_WIDTH_PX
    /\ conf.ROWS * conf.img_h <= A4_HEIGHT_PX

\* the images found at grid cell c of a page, in paste order
CellImgs(pg, c) ==
    LET InCell(r) == r.row = c \div conf.COLS /\ r.col = c % conf.COLS
        hit == SelectSeq(pg, InCell)
    IN  [m \in 1..Len(hit) |-> hit[m].img]

RECURSIVE ReadCells(_, _)
\* a page read cell by cell from cell c on, row-major
ReadCells(pg, c) ==
    IF c >= PerPage THEN <<>> ELSE CellImgs(pg, c) \o ReadCells(pg, c + 1)

RECURSIVE ReadDoc(_, _)
\* the pages from page p on, read in page order
ReadDoc(pgs, p) ==
    IF p > Len(pgs) THEN <<>> ELSE ReadCells(pgs[p], 0) \o ReadDoc(pgs, p + 1)

RECURSIVE PasteCount(_, _)
PasteCount(pgs, p) ==
    IF p > Len(pgs) THEN 0 ELSE Len(pgs[p]) + PasteCount(pgs, p + 1)

\* the half-open pixel rectangles of two pastes share a pixel
Overlap(r, s) ==
    /\ r.x < s.x + conf.img_w /\ s.x < r.x + conf.img_w
    /\ r.y < s.y + conf.img_h /\ s.y < r.y + conf.img_h

CeilDiv(n, d) == (n + d - 1) \div d

\* nearest integer to mm * dpi * 10 / 254
RoundPx(mm, dpi) ==
    (2 * mm * dpi * MM_TO_INCH_NUM + MM_TO_INCH_DEN) \div (2 * MM_TO_INCH_DEN)

DigitValue(ch) == CHOOSE d \in 0..9 : DigitChars[d + 1] = ch

IsDigit(ch) == \E d \in 0..9 : DigitChars[d + 1] = ch

RECURSIVE DigitsValue(_)
DigitsValue(s) ==
    IF s = <<>> THEN 0
    ELSE 10 * DigitsValue(SubSeq(s, 1, Len(s) - 1)) + DigitValue(s[Len(s)])

\* the integer a code reads as: "P", an optional sign, decimal digits
CodeValue(c) ==
    LET body == Tail(c)
    IN  IF Head(body) = "-" THEN 0 - DigitsValue(Tail(body)) ELSE DigitsValue(body)

\* "P" followed by exactly four decimal digits that read as n
FixedPattern(c, n) ==
    /\ Len(c) = 1 + CODE_WIDTH
    /\ c[1] = "P"
    /\ \A m \in 2..Len(c) : IsDigit(c[m])
    /\ DigitsValue(Tail(c)) = n

-----------------------------------------------------------------------------
(* C1 *)

\* C1: pagination is order-preserving and exhaustive: the pages read page by
\* page and cell by cell in row-major order give back the image sequence, each
\* image pasted exactly once (while pages are being filled: the prefix pasted
\* so far).
C1_PaginationPreservesOrder ==
    /\ LaidOut =>
          /\ PasteCount(AllPages, 1) <= Len(images)
          /\ ReadDoc(AllPages, 1) = SubSeq(images, 1, PasteCount(AllPages, 1))
    /\ pdf_written =>
          /\ ReadDoc(pdf, 1) = images
          /\ PasteCount(pdf, 1) = Len(images)
          /\ \A a, b \in 1..Len(images) : a # b => images[a] # images[b]

C1_Witness ==
    /\ pdf_written /\ conf = ProgramConf
    /\ Len(pdf) = 3 /\ Len(pdf[3]) = 1
    /\ ReadDoc(pdf, 1) = images

-----------------------------------------------------------------------------
(* C2 *)

\* C2: under the fit invariant both spacings are >= 0 and no two images pasted
\* on the same page have overlapping pixel rectangles.
C2_NoOverlapWhenFit ==
    (LaidOut /\ FitInvariant) =>
        /\ h_space >= 0 /\ v_space >= 0
        /\ \A p \in 1..Len(AllPages) :
              \A a, b \in 1..Len(AllPages[p]) :
                  a # b => ~Overlap(AllPages[p][a], AllPages[p][b])

C2_Witness ==
    /\ pdf_written /\ FitInvariant
    /\ conf.COLS = 2 /\ conf.ROWS = 2
    /\ h_space = 0 /\ v_space = 1
    /\ Len(pdf[1]) = 4

-----------------------------------------------------------------------------
(* C3 *)

\* C3: with the program's constants no pasted image is clipped: the rectangle
\* of every paste, and of every grid cell 0 .. COLS*ROWS-1, lies inside the page.
C3_NoClipping ==
    LaidOut =>
        /\ \A p \in 1..Len(AllPages) : \A a \in 1..Len(AllPages[p]) :
              LET r == AllPages[p][a]
              IN  /\ 0 <= r.x /\ r.x + conf.img_w <= A4_WIDTH_PX
                  /\ 0 <= r.y /\ r.y + conf.img_h <= A4_HEIGHT_PX
        /\ \A c \in 0..(PerPage - 1) :
              LET x == Offset(ColOf(c, conf.COLS), conf.img_w, h_space)
                  y == Offset(RowOf(c, conf.COLS), conf.img_h, v_space)
              IN  /\ 0 <= x /\ x + conf.img_w <= A4_WIDTH_PX
                  /\ 0 <= y /\ y + conf.img_h <= A4_HEIGHT_PX

C3_Witness ==
    /\ pdf_written
    /\ Len(pdf[1]) = PerPage
    /\ pdf[1][PerPage].row = ROWS - 1 /\ pdf[1][PerPage].col = COLS - 1
    /\ pdf[1][PerPage].x + SIZE <= A4_WIDTH_PX

-----------------------------------------------------------------------------
(* C4 *)

-----------------------------------------------------------------------------
(* C5 *)

-----------------------------------------------------------------------------
(* C6 *)

\* C6 as claimed: for all start <= end there are end - start + 1 codes, one per
\* i in ascending order, pairwise distinct, each "P" followed by exactly four
\* zero-padded decimal digits of i.
C6_FixedWidthCodes ==
    (Generated /\ start <= end) =>
        /\ Len(codes) = end - start + 1
        /\ \A n \in 1..Len(codes) : FixedPattern(codes[n], start + n - 1)
        /\ \A a, b \in 1..Len(codes) : a # b => codes[a] # codes[b]

\* C6 as amended: for all start <= end there are end - start + 1 codes, one per
\* i in ascending order (each code reads back as its i), pairwise distinct; a
\* code is "P" followed by exactly four zero-padded digits of i when
\* 0 <= i <= 9999; beyond 9999 it has more digits, and below 0 a minus sign
\* follows the "P".
C6_CodesOfRange ==
    (Generated /\ start <= end) =>
        /\ Len(codes) = end - start + 1
        /\ \A n \in 1..Len(codes) :
              LET v == start + n - 1
              IN  /\ CodeValue(codes[n]) = v
                  /\ (0 <= v /\ v <= 9999) => FixedPattern(codes[n], v)
                  /\ v > 9999 => Len(codes[n]) > 1 + CODE_WIDTH
                  /\ v < 0 => codes[n][2] = "-"
        /\ \A a, b \in 1..Len(codes) : a # b => codes[a] # codes[b]

C6_Witness ==
    /\ Generated /\ start = 301 /\ end = 305
    /\ codes = << <<"P", "0", "3", "0", "1">>, <<"P", "0", "3", "0", "2">>,
                  <<"P", "0", "3", "0", "3">>, <<"P", "0", "3", "0", "4">>,
                  <<"P", "0", "3", "0", "5">> >>

-----------------------------------------------------------------------------
(* C7 *)

\* C7: n >= 1 images give ceil(n / (COLS*ROWS)) pages; every page but the last
\* holds COLS*ROWS images, the last holds the remaining 1..COLS*ROWS images in
\* cells 0..k-1; 5 images fit one page when 5 <= COLS*ROWS, and COLS*ROWS + 1
\* images give 2 pages, the second with exactly 1 image.
C7_PageCount ==
    pdf_written =>
        LET n == Len(images)
            np == Len(pdf)
        IN  /\ n >= 1
            /\ np = CeilDiv(n, conf.COLS * conf.ROWS)
            /\ \A p \in 1..(np - 1) : Len(pdf[p]) = conf.COLS * conf.ROWS
            /\ Len(pdf[np]) = n - (np - 1) * conf.COLS * conf.ROWS
            /\ Len(pdf[np]) \in 1..(conf.COLS * conf.ROWS)
            /\ \A p \in 1..np : \A m \in 1..Len(pdf[p]) :
                  pdf[p][m].row * conf.COLS + pdf[p][m].col = m - 1
            /\ (n = 5 /\ 5 <= conf.COLS * conf.ROWS) => np = 1
            /\ n = conf.COLS * conf.ROWS + 1 => (np = 2 /\ Len(pdf[2]) = 1)

C7_Witness ==
    /\ pdf_written /\ conf = ProgramConf
    /\ Len(images) = COLS * ROWS + 1
    /\ Len(pdf) = 2 /\ Len(pdf[2]) = 1

-----------------------------------------------------------------------------
(* C8 *)

\* C8: the page pixel size is the physical size in inches times the
\* resolution, rounded to the nearest integer.
C8_PagePxRounded ==
    LaidOut =>
        /\ A4_WIDTH_PX = RoundPx(A4_WIDTH_MM, DPI)
        /\ A4_HEIGHT_PX = RoundPx(A4_HEIGHT_MM, DPI)

-----------------------------------------------------------------------------
(* C9 *)

C9_State ==
    /\ failed # 0 =>
          /\ pc = "exit" /\ status = 1 /\ ~pdf_written
          /\ k = failed /\ images = <<>>
          /\ \A n \in 1..Len(codes) :
                /\ n < failed => (codes[n] \in svgs /\ codes[n] \in pngs)
                /\ n > failed => (codes[n] \notin svgs /\ codes[n] \notin pngs)
    /\ pdf_written =>
          /\ failed = 0
          /\ images = codes
          /\ \A n \in 1..Len(codes) : codes[n] \in svgs /\ codes[n] \in pngs

\* C9: a failure while processing a code is fatal: once code k has failed
\* nothing more happens (no later code is processed, no document is written),
\* a document is written only after every code has its image, and per-code
\* files once written stay in place.
C9_FailureIsFatal ==
    /\ []C9_State
    /\ [][failed # 0 => UNCHANGED vars]_vars
    /\ [][svgs \subseteq svgs' /\ pngs \subseteq pngs']_vars

C9_Witness ==
    /\ failed = 3 /\ pc = "exit"
    /\ codes[1] \in pngs /\ codes[2] \in pngs
    /\ codes[3] \in svgs /\ codes[3] \notin pngs
    /\ Len(codes) > 3

-----------------------------------------------------------------------------
(* C10 *)

\* the pastes of a full page checked against left/top margin and gaps
GapsUniform(pg) ==
    \A a \in 1..Len(pg) :
        /\ pg[a].col = 0 => pg[a].x = h_space
        /\ pg[a].row = 0 => pg[a].y = v_space
        /\ \A b \in 1..Len(pg) :
              /\ (pg[b].row = pg[a].row /\ pg[b].col = pg[a].col + 1) =>
                     pg[b].x - (pg[a].x + conf.img_w) = h_space
              /\ (pg[b].col = pg[a].col /\ pg[b].row = pg[a].row + 1) =>
                     pg[b].y - (pg[a].y + conf.img_h) = v_space

RightMargin(pg) == A4_WIDTH_PX - (pg[Len(pg)].x + conf.img_w)
BottomMargin(pg) == A4_HEIGHT_PX - (pg[Len(pg)].y + conf.img_h)

FullPage(pg) == Len(pg) = PerPage

\* C10 as claimed: on a full page the left margin and the column gaps equal
\* h_space, the top margin and the row gaps equal v_space, and the right and
\* bottom margins equal the left and top ones.
C10_MarginsSymmetric ==
    (LaidOut /\ FitInvariant) =>
        \A p \in 1..Len(AllPages) :
            FullPage(AllPages[p]) =>
                /\ GapsUniform(AllPages[p])
                /\ RightMargin(AllPages[p]) = h_space
                /\ BottomMargin(AllPages[p]) = v_space

\* C10 as amended: on a full page the left margin and the column gaps equal
\* h_space and the top margin and the row gaps equal v_space; the right margin
\* is h_space plus the remainder (page_w_px - COLS*img_w) mod (COLS+1) and the
\* bottom margin is v_space plus (page_h_px - ROWS*img_h) mod (ROWS+1), so
\* they are never smaller than the left/top margin and exceed it by at most
\* COLS (ROWS).  With the program's constants left = right = 80, top = 158
\* and bottom = 159.
C10_MarginsUpToRemainder ==
    (LaidOut /\ FitInvariant) =>
        \A p \in 1..Len(AllPages) :
            FullPage(AllPages[p]) =>
                LET pg == AllPages[p]
                IN  /\ GapsUniform(pg)
                    /\ RightMargin(pg) = h_space
                          + ((A4_WIDTH_PX - conf.COLS * conf.img_w) % (conf.COLS + 1))
                    /\ BottomMargin(pg) = v_space
                          + ((A4_HEIGHT_PX - conf.ROWS * conf.img_h) % (conf.ROWS + 1))
                    /\ RightMargin(pg) - h_space \in 0..conf.COLS
                    /\ BottomMargin(pg) - v_space \in 0..conf.ROWS
                    /\ conf = ProgramConf =>
                          /\ h_space = 80 /\ RightMargin(pg) = 80
                          /\ v_space = 158 /\ BottomMargin(pg) = 159

C10_Witness ==
    /\ pdf_written /\ conf = ProgramConf /\ FitInvariant
    /\ FullPage(pdf[1])
    /\ BottomMargin(pdf[1]) = v_space + 1

====
